---- MODULE Spec2Model ----
(***************************************************************************)
(* Model of the GigVault Registration Authority (gigvault/ra):             *)
(* RAService (CreateEnrollment, ApproveEnrollment, RejectEnrollment) on    *)
(* top of EnrollmentStorage (Create, GetByID, Update) and the enrollments  *)
(* table.  Every HTTP request runs the service method on its own           *)
(* goroutine; the only shared state is the table, so the interleaving      *)
(* points of a call are its storage statements.                            *)
(***************************************************************************)
EXTENDS Integers, Sequences, FiniteSets, TLC

\* ------------------------------------------------------------------ bounds
NumCalls == 3        \* number of service calls (request goroutines)
MaxRecords == 2      \* rows the enrollments table can hold in the model
MaxClock == 1        \* largest value of the wall clock

Calls == 1..NumCalls
Ids == 1..MaxRecords
Times == 0..MaxClock

\* ------------------------------------------------------------------ inputs
CommonNames == {"svc", "SVC"}
Organizations == {"Ops"}
Emails == {"ops@example.com"}
Actors == {"", "alice"}
Reasons == {"", "duplicate request"}

\* A PEM request is modelled by its block type, the subject common name it
\* encodes and whether its self-signature verifies.
CSRs ==
    { <<"CERTIFICATE REQUEST", "svc", TRUE>>,
      <<"CERTIFICATE REQUEST", "svc", FALSE>>,
      <<"CERTIFICATE", "svc", TRUE>> }

\* ------------------------------------------------------------ error values
\* A Go error chain built with fmt.Errorf("...: %w", err) is the sequence of
\* its messages, outermost first; nil is the empty sequence.
nil == <<>>
ErrInvalidCSR == "invalid CSR"
ErrCNMismatch == "CSR common name does not match provided common name"
ErrCreate == "failed to create enrollment"
ErrNotFound == "enrollment not found"
ErrGet == "failed to get enrollment"
ErrNotPending == "enrollment is not in pending status"
ErrUpdate == "failed to update enrollment"
ErrNoRows == "no rows in result set"
ErrDB == "connection refused"
ErrParse == "failed to parse CSR"

\* --------------------------------------------------------------- variables
VARIABLES
    store,        \* the enrollments table: row i has id i (SERIAL)
    clock,        \* the wall clock as of the latest time.Now()
    pc,           \* position of each call
    op,           \* which service method the call runs
    args,         \* the call's arguments while it runs
    target,       \* history: the id the call addressed
    enrollment,   \* the call's local *models.Enrollment (<<>> is a nil pointer)
    err,          \* the call's returned error chain
    after,        \* history: the decisions ("approve", "reject") that had
                  \* returned success on the call's id when the call started
    io,           \* history: how many repository reads, repository writes
                  \* and CA Sign calls the call has made, and how many of
                  \* its Sign calls succeeded
    serial,       \* the certificate_serial of each id (<<>> is NULL)
    cert          \* the call's local serial of the certificate it obtained

vars == <<store, clock, pc, op, args, target, enrollment, err, after, io,
          serial, cert>>

\* The variables of the issuance hand-off.
issuance == <<serial, cert>>

\* *string: <<>> is nil (SQL NULL), <<s>> points to s.
Ptr(s) == <<s>>

NoArgs == [id |-> 0, by |-> "", reason |-> ""]

NoIO == [reads |-> 0, writes |-> 0, signs |-> 0, signed |-> 0]

\* --------------------------------------------------------------- validator
\* crypto.ParseCSR: decodes the PEM block, checks the self-signature and
\* returns the request with its subject.
ParseCSR(csrPEM) ==
    IF csrPEM[1] = "CERTIFICATE REQUEST" /\ csrPEM[3]
    THEN [csr |-> <<[Subject |-> [CommonName |-> csrPEM[2]]]>>, err |-> nil]
    ELSE [csr |-> <<>>, err |-> <<ErrParse>>]

SubjectMatchesAlways(csr, cn) == TRUE

ToLower(s) == IF s = "SVC" THEN "svc" ELSE s

SubjectMatchesFold(csr, cn) == ToLower(csr.Subject.CommonName) = ToLower(cn)

\* http.go:217  csr.Subject.CommonName != cn  (negated)
SubjectMatches(csr, cn) == csr.Subject.CommonName = cn

NewEnrollmentApproved(cn, org, email, csrPEM, t1, t2) ==
    [ID |-> 0, CommonName |-> cn, Organization |-> org, Email |-> email,
     CSR |-> csrPEM, Status |-> "approved",
     ApprovedBy |-> <<>>, RejectedBy |-> <<>>, RejectReason |-> <<>>,
     CreatedAt |-> t1, UpdatedAt |-> t2]

\* http.go:221-229  the models.Enrollment literal of CreateEnrollment
NewEnrollment(cn, org, email, csrPEM, t1, t2) ==
    [ID |-> 0, CommonName |-> cn, Organization |-> org, Email |-> email,
     CSR |-> csrPEM, Status |-> "pending",
     ApprovedBy |-> <<>>, RejectedBy |-> <<>>, RejectReason |-> <<>>,
     CreatedAt |-> t1, UpdatedAt |-> t2]

\* ----------------------------------------------------------------- storage
\* EnrollmentStorage.Create: INSERT ... RETURNING id; the id is scanned into
\* the caller's struct.
Create(st, e) == Append(st, [e EXCEPT !.ID = Len(st) + 1])

ZeroEnrollment ==
    [ID |-> 0, CommonName |-> "", Organization |-> "", Email |-> "",
     CSR |-> <<>>, Status |-> "",
     ApprovedBy |-> <<>>, RejectedBy |-> <<>>, RejectReason |-> <<>>,
     CreatedAt |-> 0, UpdatedAt |-> 0]

GetByIDZero(st, id) ==
    IF id \in DOMAIN st
    THEN [enrollment |-> <<st[id]>>, err |-> nil]
    ELSE [enrollment |-> <<ZeroEnrollment>>, err |-> nil]

\* EnrollmentStorage.GetByID: SELECT ... WHERE id = $1
GetByID(st, id) ==
    IF id \in DOMAIN st
    THEN [enrollment |-> <<st[id]>>, err |-> nil]
    ELSE [enrollment |-> <<>>, err |-> <<ErrGet, ErrNoRows>>]

UpdateStatusOnly(st, e) ==
    IF e.ID \in DOMAIN st
    THEN [st EXCEPT ![e.ID] = [@ EXCEPT !.Status = e.Status]]
    ELSE st

UpdateTouchCreated(st, e) ==
    IF e.ID \in DOMAIN st
    THEN [st EXCEPT ![e.ID] =
            [@ EXCEPT !.Status = e.Status, !.ApprovedBy = e.ApprovedBy,
                      !.RejectedBy = e.RejectedBy,
                      !.RejectReason = e.RejectReason,
                      !.CreatedAt = e.UpdatedAt,
                      !.UpdatedAt = e.UpdatedAt]]
    ELSE st

UpdateAllRows(st, e) ==
    [id \in DOMAIN st |->
        [st[id] EXCEPT !.Status = e.Status, !.ApprovedBy = e.ApprovedBy,
                       !.RejectedBy = e.RejectedBy,
                       !.RejectReason = e.RejectReason,
                       !.UpdatedAt = e.UpdatedAt]]

UpdateSkipNulls(st, e) ==
    IF e.ID \in DOMAIN st
    THEN [st EXCEPT ![e.ID] =
            [@ EXCEPT !.Status = e.Status,
                      !.ApprovedBy = IF e.ApprovedBy = <<>> THEN @ ELSE e.ApprovedBy,
                      !.RejectedBy = IF e.RejectedBy = <<>> THEN @ ELSE e.RejectedBy,
                      !.RejectReason =
                          IF e.RejectReason = <<>> THEN @ ELSE e.RejectReason,
                      !.UpdatedAt = e.UpdatedAt]]
    ELSE st

\* EnrollmentStorage.Update: UPDATE enrollments SET status, approved_by,
\* rejected_by, reject_reason, updated_at WHERE id = $6
Update(st, e) ==
    IF e.ID \in DOMAIN st
    THEN [st EXCEPT ![e.ID] =
            [@ EXCEPT !.Status = e.Status, !.ApprovedBy = e.ApprovedBy,
                      !.RejectedBy = e.RejectedBy,
                      !.RejectReason = e.RejectReason,
                      !.UpdatedAt = e.UpdatedAt]]
    ELSE st

IsPendingAlways(e) == TRUE

IsPendingOrApproved(e) == e.Status \in {"pending", "approved"}

\* http.go:255 and :292  enrollment.Status != "pending"  (negated)
IsPending(e) == e.Status = "pending"

ApprovedKeepStatus(e, approvedBy, now) ==
    [e EXCEPT !.ApprovedBy = Ptr(approvedBy), !.UpdatedAt = now]

\* http.go:264-266
Approved(e, approvedBy, now) ==
    [e EXCEPT !.Status = "approved", !.ApprovedBy = Ptr(approvedBy),
              !.UpdatedAt = now]

\* http.go:302-305
Rejected(e, rejectedBy, reason, now) ==
    [e EXCEPT !.Status = "rejected", !.RejectedBy = Ptr(rejectedBy),
              !.RejectReason = Ptr(reason), !.UpdatedAt = now]

\* ---------------------------------------------------------------- HTTP API
StatusCreated == 201
StatusNoContent == 204
StatusInternalServerError == 500

\* HTTPHandler.CreateEnrollment / ApproveEnrollment / RejectEnrollment:
\* the response written for a service call that returned e.
HTTPResponse(o, e) ==
    IF o = "create"
    THEN IF e # nil
         THEN [code |-> StatusInternalServerError,
               body |-> "Failed to create enrollment"]
         ELSE [code |-> StatusCreated, body |-> "enrollment"]
    ELSE IF o = "approve"
    THEN IF e # nil
         THEN [code |-> StatusInternalServerError,
               body |-> "Failed to approve enrollment"]
         ELSE [code |-> StatusNoContent, body |-> ""]
    ELSE IF e # nil
         THEN [code |-> StatusInternalServerError,
               body |-> "Failed to reject enrollment"]
         ELSE [code |-> StatusNoContent, body |-> ""]

\* The kinds of decision that have returned success on id.
Decided(id) ==
    {op[q] : q \in {r \in Calls : /\ pc[r] = "done"
                                  /\ op[r] \in {"approve", "reject"}
                                  /\ target[r] = id
                                  /\ err[r] = nil}}

\* -------------------------------------------------------------------- Init
Init ==
    /\ store = <<>>
    /\ clock = 0
    /\ pc = [p \in Calls |-> "idle"]
    /\ op = [p \in Calls |-> "none"]
    /\ args = [p \in Calls |-> NoArgs]
    /\ target = [p \in Calls |-> 0]
    /\ enrollment = [p \in Calls |-> <<>>]
    /\ err = [p \in Calls |-> nil]
    /\ after = [p \in Calls |-> {}]
    /\ io = [p \in Calls |-> NoIO]
    /\ serial = [id \in Ids |-> <<>>]
    /\ cert = [p \in Calls |-> <<>>]

\* ----------------------------------------------------------------- actions
\* Calls are numbered in the order in which they start.
CanStart(p) == pc[p] = "idle" /\ \A q \in Calls : q < p => pc[q] # "idle"

\* time.Now() after the clock has advanced by dt since its latest reading.
Now(dt) == clock + dt

\* RAService.CreateEnrollment (one storage statement, so one step).
\* dbFail: the INSERT fails.  dt: the clock advance seen by the second
\* time.Now() of the struct literal.
CreateEnrollment(p, cn, org, email, csrPEM, dbFail, dt) ==
    /\ CanStart(p)
    /\ Len(store) < MaxRecords
    /\ Now(dt) <= MaxClock
    /\ pc' = [pc EXCEPT ![p] = "done"]
    /\ op' = [op EXCEPT ![p] = "create"]
    /\ UNCHANGED <<args, target, after, issuance>>
    /\ LET parsed == ParseCSR(csrPEM)
           e == NewEnrollment(cn, org, email, csrPEM, Now(0), Now(dt))
       IN  IF parsed.err # nil
           THEN /\ err' = [err EXCEPT ![p] = <<ErrInvalidCSR>> \o parsed.err]
                /\ UNCHANGED <<store, clock, enrollment, io>>
           ELSE IF ~SubjectMatches(parsed.csr[1], cn)
           THEN /\ err' = [err EXCEPT ![p] = <<ErrCNMismatch>>]
                /\ UNCHANGED <<store, clock, enrollment, io>>
           ELSE IF dbFail
           THEN /\ err' = [err EXCEPT ![p] = <<ErrCreate, ErrCreate, ErrDB>>]
                /\ clock' = Now(dt)
                /\ io' = [io EXCEPT ![p].writes = @ + 1]
                /\ UNCHANGED <<store, enrollment>>
           ELSE /\ store' = Create(store, e)
                /\ enrollment' = [enrollment EXCEPT
                                    ![p] = <<[e EXCEPT !.ID = Len(store) + 1]>>]
                /\ err' = [err EXCEPT ![p] = nil]
                /\ clock' = Now(dt)
                /\ io' = [io EXCEPT ![p].writes = @ + 1]

\* ApproveEnrollment / RejectEnrollment, http.go:250-257 and :287-294:
\* GetByID, then the status check.
DecideGetByID(p, kind, id, by, reason, dbFail) ==
    /\ CanStart(p)
    /\ op' = [op EXCEPT ![p] = kind]
    /\ target' = [target EXCEPT ![p] = id]
    /\ after' = [after EXCEPT ![p] = Decided(id)]
    /\ io' = [io EXCEPT ![p].reads = @ + 1]
    /\ LET got == IF dbFail THEN [enrollment |-> <<>>, err |-> <<ErrGet, ErrDB>>]
                  ELSE GetByID(store, id)
       IN  IF got.err # nil
           THEN /\ err' = [err EXCEPT ![p] = <<ErrNotFound>> \o got.err]
                /\ pc' = [pc EXCEPT ![p] = "done"]
                /\ UNCHANGED <<enrollment, args>>
           ELSE IF ~IsPending(got.enrollment[1])
           THEN /\ err' = [err EXCEPT ![p] = <<ErrNotPending>>]
                /\ pc' = [pc EXCEPT ![p] = "done"]
                /\ UNCHANGED <<enrollment, args>>
           ELSE /\ enrollment' = [enrollment EXCEPT ![p] = got.enrollment]
                /\ args' = [args EXCEPT ![p] = [id |-> id, by |-> by,
                                                 reason |-> reason]]
                /\ pc' = [pc EXCEPT ![p] = "mutate"]
                /\ UNCHANGED err
    /\ UNCHANGED <<store, clock, issuance>>

ApproveGetByID(p, id, approvedBy, dbFail) ==
    DecideGetByID(p, "approve", id, approvedBy, "", dbFail)

RejectGetByID(p, id, rejectedBy, reason, dbFail) ==
    DecideGetByID(p, "reject", id, rejectedBy, reason, dbFail)

\* http.go:264-266: the assignments to the local struct, with time.Now().
ApproveMutate(p, dt) ==
    /\ pc[p] = "mutate" /\ op[p] = "approve"
    /\ Now(dt) <= MaxClock
    /\ enrollment' = [enrollment EXCEPT
                        ![p] = <<Approved(enrollment[p][1], args[p].by, Now(dt))>>]
    /\ clock' = Now(dt)
    /\ pc' = [pc EXCEPT ![p] = "update"]
    /\ UNCHANGED <<store, op, args, target, err, after, io, issuance>>

\* http.go:302-305
RejectMutate(p, dt) ==
    /\ pc[p] = "mutate" /\ op[p] = "reject"
    /\ Now(dt) <= MaxClock
    /\ enrollment' = [enrollment EXCEPT
                        ![p] = <<Rejected(enrollment[p][1], args[p].by,
                                          args[p].reason, Now(dt))>>]
    /\ clock' = Now(dt)
    /\ pc' = [pc EXCEPT ![p] = "update"]
    /\ UNCHANGED <<store, op, args, target, err, after, io, issuance>>

DecideUpdateSigning(p, kind, dbFail) ==
    /\ pc[p] = "update" /\ op[p] = kind
    /\ IF dbFail
       THEN /\ err' = [err EXCEPT ![p] = <<ErrUpdate, ErrUpdate, ErrDB>>]
            /\ UNCHANGED store
       ELSE /\ store' = Update(store, enrollment[p][1])
            /\ err' = [err EXCEPT ![p] = nil]
    /\ pc' = [pc EXCEPT ![p] = "done"]
    /\ enrollment' = [enrollment EXCEPT ![p] = <<>>]
    /\ args' = [args EXCEPT ![p] = NoArgs]
    /\ io' = [io EXCEPT ![p].writes = @ + 1, ![p].signs = @ + 1]
    /\ UNCHANGED <<clock, op, target, after, issuance>>

\* http.go:268-282 and :307-311: storage.Update and the return.
DecideUpdate(p, kind, dbFail) ==
    /\ pc[p] = "update" /\ op[p] = kind
    /\ IF dbFail
       THEN /\ err' = [err EXCEPT ![p] = <<ErrUpdate, ErrUpdate, ErrDB>>]
            /\ UNCHANGED store
       ELSE /\ store' = Update(store, enrollment[p][1])
            /\ err' = [err EXCEPT ![p] = nil]
    /\ pc' = [pc EXCEPT ![p] = "done"]
    /\ enrollment' = [enrollment EXCEPT ![p] = <<>>]
    /\ args' = [args EXCEPT ![p] = NoArgs]
    /\ io' = [io EXCEPT ![p].writes = @ + 1]
    /\ UNCHANGED <<clock, op, target, after, issuance>>

ApproveUpdate(p, dbFail) == DecideUpdate(p, "approve", dbFail)

RejectUpdate(p, dbFail) == DecideUpdate(p, "reject", dbFail)

Next ==
    \/ \E p \in Calls, cn \in CommonNames, org \in Organizations,
          email \in Emails, csrPEM \in CSRs, dbFail \in BOOLEAN, dt \in 0..1 :
          CreateEnrollment(p, cn, org, email, csrPEM, dbFail, dt)
    \/ \E p \in Calls, id \in Ids, by \in Actors, dbFail \in BOOLEAN :
          ApproveGetByID(p, id, by, dbFail)
    \/ \E p \in Calls, id \in Ids, by \in Actors, reason \in Reasons,
          dbFail \in BOOLEAN :
          RejectGetByID(p, id, by, reason, dbFail)
    \/ \E p \in Calls, dt \in 0..1 : ApproveMutate(p, dt)
    \/ \E p \in Calls, dt \in 0..1 : RejectMutate(p, dt)
    \/ \E p \in Calls, dbFail \in BOOLEAN : ApproveUpdate(p, dbFail)
    \/ \E p \in Calls, dbFail \in BOOLEAN : RejectUpdate(p, dbFail)

Spec == Init /\ [][Next]_vars

\* ------------------------------------------------------- issuance hand-off
\* The outcome of the CA's SignCSR RPC, and the serial of the certificate
\* it issues.
RPCOutcomes == {"ok", "deadline exceeded", "rejected by CA policy"}
Serials == {"01", "02"}

ErrSign == "failed to sign CSR"
ErrInvalidTransition == "InvalidTransition"
ErrCA == "CA failure"

SignCSRSwallow(rpc, sn) == [pem |-> <<"CERTIFICATE", sn>>, err |-> nil]

\* CAClient.SignCSR: the certificate PEM of the response, or the wrapped
\* RPC error.
SignCSR(rpc, sn) ==
    IF rpc # "ok"
    THEN [pem |-> <<>>, err |-> <<ErrSign, rpc>>]
    ELSE [pem |-> <<"CERTIFICATE", sn>>, err |-> nil]

\* The statuses from which RequestIssuance may proceed.
Issuable(e) == e.Status \in {"approved", "issuance_failed"}

\* RequestIssuance: read the record and check its status.
IssueGetByID(p, id, dbFail) ==
    /\ CanStart(p)
    /\ op' = [op EXCEPT ![p] = "issue"]
    /\ target' = [target EXCEPT ![p] = id]
    /\ after' = [after EXCEPT ![p] = Decided(id)]
    /\ io' = [io EXCEPT ![p].reads = @ + 1]
    /\ LET got == IF dbFail THEN [enrollment |-> <<>>, err |-> <<ErrGet, ErrDB>>]
                  ELSE GetByID(store, id)
       IN  IF got.err # nil
           THEN /\ err' = [err EXCEPT ![p] = <<ErrNotFound>> \o got.err]
                /\ pc' = [pc EXCEPT ![p] = "done"]
                /\ UNCHANGED enrollment
           ELSE IF ~Issuable(got.enrollment[1])
           THEN /\ err' = [err EXCEPT ![p] = <<ErrInvalidTransition>>]
                /\ pc' = [pc EXCEPT ![p] = "done"]
                /\ UNCHANGED enrollment
           ELSE /\ enrollment' = [enrollment EXCEPT ![p] = got.enrollment]
                /\ pc' = [pc EXCEPT ![p] = "sign"]
                /\ UNCHANGED err
    /\ UNCHANGED <<store, clock, args, issuance>>

\* RequestIssuance: send the stored CSR to the CA and take the outcome into
\* the local record.
IssueSign(p, rpc, sn) ==
    /\ pc[p] = "sign"
    /\ io' = [io EXCEPT ![p].signs = @ + 1,
                        ![p].signed = IF rpc = "ok" THEN @ + 1 ELSE @]
    /\ LET res == SignCSR(rpc, sn)
       IN  IF res.err # nil
           THEN /\ enrollment' = [enrollment EXCEPT
                    ![p] = <<[enrollment[p][1] EXCEPT
                                !.Status = "issuance_failed",
                                !.UpdatedAt = Now(0)]>>]
                /\ cert' = [cert EXCEPT ![p] = <<>>]
                /\ err' = [err EXCEPT ![p] = <<ErrCA>> \o res.err]
           ELSE /\ enrollment' = [enrollment EXCEPT
                    ![p] = <<[enrollment[p][1] EXCEPT
                                !.Status = "issued",
                                !.UpdatedAt = Now(0)]>>]
                /\ cert' = [cert EXCEPT ![p] = <<res.pem[2]>>]
                /\ err' = [err EXCEPT ![p] = nil]
    /\ pc' = [pc EXCEPT ![p] = "record"]
    /\ UNCHANGED <<store, clock, op, args, target, after, serial>>

\* RequestIssuance: persist the outcome with EnrollmentStorage.Update.
IssueUpdate(p, dbFail) ==
    /\ pc[p] = "record"
    /\ IF dbFail
       THEN /\ err' = [err EXCEPT ![p] = <<ErrUpdate, ErrUpdate, ErrDB>>]
            /\ UNCHANGED <<store, serial>>
       ELSE /\ store' = Update(store, enrollment[p][1])
            /\ serial' = [serial EXCEPT ![target[p]] = cert[p]]
            /\ UNCHANGED err
    /\ pc' = [pc EXCEPT ![p] = "done"]
    /\ enrollment' = [enrollment EXCEPT ![p] = <<>>]
    /\ cert' = [cert EXCEPT ![p] = <<>>]
    /\ io' = [io EXCEPT ![p].writes = @ + 1]
    /\ UNCHANGED <<clock, op, args, target, after>>

\* A record as CreateEnrollment stores it, and as a decision leaves it.
PendingRow ==
    Create(<<>>, NewEnrollment("svc", "Ops", "ops@example.com",
                               <<"CERTIFICATE REQUEST", "svc", TRUE>>, 0, 0))[1]

InitIssuance ==
    /\ store \in { <<PendingRow>>,
                   <<Approved(PendingRow, "alice", 0)>>,
                   <<Rejected(PendingRow, "alice", "duplicate request", 0)>> }
    /\ clock = 0
    /\ pc = [p \in Calls |-> "idle"]
    /\ op = [p \in Calls |-> "none"]
    /\ args = [p \in Calls |-> NoArgs]
    /\ target = [p \in Calls |-> 0]
    /\ enrollment = [p \in Calls |-> <<>>]
    /\ err = [p \in Calls |-> nil]
    /\ after = [p \in Calls |-> {}]
    /\ io = [p \in Calls |-> NoIO]
    /\ serial = [id \in Ids |-> <<>>]
    /\ cert = [p \in Calls |-> <<>>]

NextIssuance ==
    \/ \E p \in Calls, id \in 1..(Len(store) + 1), dbFail \in BOOLEAN :
          IssueGetByID(p, id, dbFail)
    \/ \E p \in Calls, rpc \in RPCOutcomes, sn \in Serials :
          IssueSign(p, rpc, sn)
    \/ \E p \in Calls, dbFail \in BOOLEAN : IssueUpdate(p, dbFail)
    \/ \E p \in Calls, id \in DOMAIN store, by \in Actors, dbFail \in BOOLEAN :
          ApproveGetByID(p, id, by, dbFail)
    \/ \E p \in Calls : ApproveMutate(p, 0)
    \/ \E p \in Calls, dbFail \in BOOLEAN : ApproveUpdate(p, dbFail)

SpecIssuance == InitIssuance /\ [][NextIssuance]_vars

TypeOK ==
    /\ Len(store) <= MaxRecords
    /\ clock \in Times
    /\ \A p \in Calls :
          pc[p] \in {"idle", "mutate", "update", "sign", "record", "done"}

\* ------------------------------------------------------------------ claims
Decisions == {"approve", "reject"}

\* The edges of the lifecycle graph.
Edges ==
    { <<"pending", "approved">>, <<"pending", "rejected">>,
      <<"approved", "issued">>, <<"approved", "issuance_failed">>,
      <<"issuance_failed", "issued">> }

\* A *string column holds a non-empty value.
NonEmpty(ptr) == ptr # <<>> /\ ptr[1] # ""

WellFormed(csrPEM) == ParseCSR(csrPEM).err = nil

EncodedCN(csrPEM) == ParseCSR(csrPEM).csr[1].Subject.CommonName

\* The call p has returned the error of a failed repository read.
ReadFailed(p) == err[p] = <<ErrNotFound, ErrGet, ErrDB>>

\* C1: of the approve and reject calls on one id, exactly one returns
\* success (every other one returns InvalidTransition).
C1_OneWinner ==
    \A p, q \in Calls :
        (/\ p # q
         /\ pc[p] = "done" /\ pc[q] = "done"
         /\ op[p] \in Decisions /\ op[q] \in Decisions
         /\ target[p] = target[q]
         /\ err[p] = nil)
        => err[q] # nil

\* C2: every change of a stored status follows an edge of the lifecycle
\* graph.
C2_FollowsEdges ==
    [][\A id \in DOMAIN store :
          store'[id].Status # store[id].Status
          => <<store[id].Status, store'[id].Status>> \in Edges]_vars

\* C3: Update is a conditional write: when the stored status is no longer
\* the status the caller read (pending), the Update step changes nothing
\* and reports an error to the caller.
C3_ConditionalWrite ==
    [][\A p \in Calls :
          (/\ pc[p] = "update" /\ pc'[p] = "done"
           /\ store[target[p]].Status # "pending")
          => (store' = store /\ err'[p] # nil)]_vars

\* C4: approved_by is non-empty exactly when status is approved, issued or
\* issuance_failed; rejected_by and reject_reason are non-empty exactly
\* when status is rejected.
C4_ActorsMatchStatus ==
    \A id \in DOMAIN store :
        /\ NonEmpty(store[id].ApprovedBy)
              <=> store[id].Status \in {"approved", "issued", "issuance_failed"}
        /\ NonEmpty(store[id].RejectedBy) <=> store[id].Status = "rejected"
        /\ NonEmpty(store[id].RejectReason) <=> store[id].Status = "rejected"

\* C5: once approved_by (rejected_by) holds a value it is never changed or
\* cleared, and the other actor column is never set afterwards.
C5_ActorSetOnce ==
    [][\A id \in DOMAIN store :
          /\ store[id].ApprovedBy # <<>>
                => /\ store'[id].ApprovedBy = store[id].ApprovedBy
                   /\ store'[id].RejectedBy = <<>>
          /\ store[id].RejectedBy # <<>>
                => /\ store'[id].RejectedBy = store[id].RejectedBy
                   /\ store'[id].ApprovedBy = <<>>]_vars

\* C6: every stored enrollment's common_name equals the subject common name
\* encoded in its stored csr.
C6_StoredCNMatchesCSR ==
    \A id \in DOMAIN store :
        /\ WellFormed(store[id].CSR)
        /\ EncodedCN(store[id].CSR) = store[id].CommonName

C6_Witness ==
    \E id \in DOMAIN store :
        store[id].Status = "approved" /\ store[id].CommonName = "svc"

\* C7: CreateEnrollment with a CSR that fails to parse returns InvalidCSR,
\* with a well-formed CSR whose subject differs from the claimed common
\* name it returns IdentityMismatch; in both cases the store is unchanged.
C7_CreateRejects ==
    [][\A p \in {q \in Calls : pc[q] = "idle" /\ op'[q] = "create"},
          cn \in CommonNames, org \in Organizations,
          email \in Emails, csrPEM \in CSRs, dbFail \in BOOLEAN, dt \in 0..1 :
          CreateEnrollment(p, cn, org, email, csrPEM, dbFail, dt)
          => /\ ~WellFormed(csrPEM)
                  => /\ Len(err'[p]) > 0 /\ err'[p][1] = ErrInvalidCSR
                     /\ store' = store
             /\ (WellFormed(csrPEM) /\ EncodedCN(csrPEM) # cn)
                  => /\ err'[p] = <<ErrCNMismatch>>
                     /\ store' = store]_vars

C7_Witness ==
    \E p, q \in Calls :
        /\ pc[p] = "done" /\ op[p] = "create"
        /\ err[p] = <<ErrInvalidCSR, ErrParse>>
        /\ pc[q] = "done" /\ op[q] = "create"
        /\ err[q] = <<ErrCNMismatch>>
        /\ store = <<>>

\* C8: CreateEnrollment with a well-formed CSR whose subject equals the
\* claimed common name, on a repository whose Create succeeds, returns
\* success and adds exactly one record: pending, with the given
\* common_name, organization, email and csr.
C8_CreateSucceeds ==
    [][\A p \in {q \in Calls : pc[q] = "idle" /\ op'[q] = "create"},
          cn \in CommonNames, org \in Organizations,
          email \in Emails, csrPEM \in CSRs, dbFail \in BOOLEAN, dt \in 0..1 :
          (/\ CreateEnrollment(p, cn, org, email, csrPEM, dbFail, dt)
           /\ WellFormed(csrPEM) /\ EncodedCN(csrPEM) = cn /\ ~dbFail)
          => /\ err'[p] = nil
             /\ Len(store') = Len(store) + 1
             /\ \A id \in DOMAIN store : store'[id] = store[id]
             /\ LET new == store'[Len(store')]
                IN  /\ new.Status = "pending"
                    /\ new.CommonName = cn /\ new.Organization = org
                    /\ new.Email = email /\ new.CSR = csrPEM
                    /\ enrollment'[p] = <<new>>]_vars

C8_Witness ==
    \E p \in Calls :
        /\ pc[p] = "done" /\ op[p] = "create" /\ err[p] = nil
        /\ Len(store) = 2
        /\ store[2].Status = "pending"

\* C9: once a stored status is rejected it stays rejected, with rejected_by
\* and reject_reason as the rejection wrote them.
C9_RejectedForever ==
    [][\A id \in DOMAIN store :
          store[id].Status = "rejected"
          => /\ store'[id].Status = "rejected"
             /\ store'[id].RejectedBy = store[id].RejectedBy
             /\ store'[id].RejectReason = store[id].RejectReason]_vars

\* C10: an ApproveEnrollment that starts after an ApproveEnrollment on the
\* same id has returned success never succeeds: it returns
\* InvalidTransition (unless its repository read itself fails), and none
\* of its steps writes to the store, so approved_by stays as it was.
C10_SecondApproveFails ==
    /\ [](\A p \in Calls :
            (pc[p] = "done" /\ op[p] = "approve" /\ "approve" \in after[p])
            => (err[p] = <<ErrNotPending>> \/ ReadFailed(p)))
    /\ [][\A p \in Calls :
            (/\ pc'[p] # pc[p]
             /\ op'[p] = "approve" /\ "approve" \in after'[p])
            => store' = store]_vars

C10_Witness ==
    \E p \in Calls :
        /\ pc[p] = "done" /\ op[p] = "approve" /\ "approve" \in after[p]
        /\ err[p] = <<ErrNotPending>>
        /\ store[target[p]].Status = "approved"
        /\ store[target[p]].ApprovedBy = <<"alice">>

\* C14: ApproveEnrollment and RejectEnrollment on an id with no record
\* return NotFound, make no repository write and leave the store unchanged.
C14_NotFound ==
    [][\A p \in {q \in Calls : pc[q] = "idle" /\ op'[q] \in Decisions} :
       \A id \in {target'[p]} \ DOMAIN store,
          by \in Actors, reason \in Reasons, dbFail \in BOOLEAN :
          DecideGetByID(p, op'[p], id, by, reason, dbFail)
          => /\ pc'[p] = "done"
             /\ Len(err'[p]) > 0 /\ err'[p][1] = ErrNotFound
             /\ io'[p].writes = 0
             /\ store' = store]_vars

C14_Witness ==
    \E p \in Calls :
        /\ pc[p] = "done" /\ op[p] = "reject"
        /\ target[p] \notin DOMAIN store
        /\ err[p] = <<ErrNotFound, ErrGet, ErrNoRows>>
        /\ io[p].writes = 0

\* C15: ApproveEnrollment makes no call to the CA: it makes exactly one
\* repository read and at most one repository write, and it has returned
\* (with success when the write committed) once the write is made.
C15_ApproveNoCACall ==
    \A p \in Calls :
        op[p] = "approve"
        => /\ io[p].signs = 0
           /\ io[p].reads = 1
           /\ io[p].writes <= 1
           /\ io[p].writes = 1
                => /\ pc[p] = "done"
                   /\ err[p] = nil \/ err[p] = <<ErrUpdate, ErrUpdate, ErrDB>>
           /\ (pc[p] = "done" /\ err[p] = nil) => io[p].writes = 1

C15_Witness ==
    \E p \in Calls :
        /\ pc[p] = "done" /\ op[p] = "approve" /\ err[p] = nil
        /\ io[p] = [reads |-> 1, writes |-> 1, signs |-> 0, signed |-> 0]
        /\ store[target[p]].Status = "approved"

\* C16: every step of an ApproveEnrollment or RejectEnrollment that ends in
\* an error, and every step before its Update, leaves the store as it was;
\* a step that does change a record replaces it by the complete
\* post-transition record of the call.
C16_NoPartialCommit ==
    [][\A p \in Calls :
          (pc'[p] # pc[p] /\ op'[p] \in Decisions)
          => /\ (pc'[p] # "done" \/ err'[p] # nil) => store' = store
             /\ store' # store
                  => /\ DOMAIN store' = DOMAIN store
                     /\ \A id \in DOMAIN store :
                           \/ store'[id] = store[id]
                           \/ store'[id] = enrollment[p][1]]_vars

C16_Witness ==
    \E p \in Calls :
        /\ pc[p] = "done" /\ op[p] = "approve"
        /\ err[p] = <<ErrUpdate, ErrUpdate, ErrDB>>
        /\ store[target[p]].Status = "pending"
        /\ store[target[p]].ApprovedBy = <<>>

\* C18: no step changes the id, common_name, organization, email, csr or
\* created_at of a stored record.
C18_ImmutableFields ==
    [][\A id \in DOMAIN store :
          /\ id \in DOMAIN store'
          /\ store'[id].ID = store[id].ID
          /\ store'[id].CommonName = store[id].CommonName
          /\ store'[id].Organization = store[id].Organization
          /\ store'[id].Email = store[id].Email
          /\ store'[id].CSR = store[id].CSR
          /\ store'[id].CreatedAt = store[id].CreatedAt]_vars

C18_Witness ==
    \E id \in DOMAIN store :
        /\ store[id].Status = "rejected"
        /\ store[id].UpdatedAt > store[id].CreatedAt

Cause(e) ==
    IF e[Len(e)] = ErrDB THEN "StorageUnavailable"
    ELSE IF e[Len(e)] = ErrNoRows THEN "NotFound"
    ELSE IF e[1] = ErrInvalidCSR THEN "InvalidCSR"
    ELSE IF e[1] = ErrCNMismatch THEN "IdentityMismatch"
    ELSE "InvalidTransition"

Failed(p) == pc[p] = "done" /\ err[p] # nil

\* C13: failures of CreateEnrollment, ApproveEnrollment and RejectEnrollment
\* with different causes get different API responses, and a failed
\* repository read is not reported as "enrollment not found".
C13_ErrorsDistinguished ==
    /\ \A p, q \in Calls :
          (Failed(p) /\ Failed(q) /\ op[p] = op[q]
           /\ Cause(err[p]) # Cause(err[q]))
          => HTTPResponse(op[p], err[p]) # HTTPResponse(op[q], err[q])
    /\ \A p \in Calls :
          (Failed(p) /\ Cause(err[p]) = "StorageUnavailable")
          => err[p][1] # ErrNotFound

\* C17: every committed mutation of a record stores an updated_at strictly
\* later than the one it replaces and not earlier than created_at.
C17_UpdatedAtAdvances ==
    [][\A id \in DOMAIN store :
          store'[id] # store[id]
          => /\ store'[id].UpdatedAt > store[id].UpdatedAt
             /\ store'[id].UpdatedAt >= store'[id].CreatedAt]_vars

\* C17 (the part that does not depend on the clock's resolution): a
\* committed mutation never stores an updated_at earlier than the one it
\* replaces.
C17_UpdatedAtNotEarlier ==
    [][\A id \in DOMAIN store :
          store'[id].UpdatedAt >= store[id].UpdatedAt]_vars

C12_NoSignUnlessIssuable ==
    [][\A p \in Calls, id \in Ids :
          (/\ IssueGetByID(p, id, FALSE)
           /\ id \in DOMAIN store
           /\ store[id].Status \notin {"approved", "issuance_failed"})
          => /\ pc'[p] = "done"
             /\ err'[p] = <<ErrInvalidTransition>>
             /\ io'[p].signs = 0]_vars

\* -------------------------------------------------------------------- List
\* enrollment.go:89, :98  LIMIT 100
PageSize == 100

ErrList == "failed to list enrollments"

\* r.URL.Query().Get("status")
Filters == {"", "pending"}

Max(S) == CHOOSE x \in S : \A y \in S : y <= x

Reverse(s) == [i \in 1..Len(s) |-> s[Len(s) + 1 - i]]

\* ORDER BY created_at DESC over the rows whose created_at is in keys.  SQL
\* leaves the order of rows with equal created_at open: they come in table
\* order, or in the reverse of it when flip holds.
RECURSIVE OrderByCreatedAtDesc(_, _, _)
OrderByCreatedAtDesc(rows, keys, flip) ==
    IF keys = {}
    THEN <<>>
    ELSE LET k == Max(keys)
             group == SelectSeq(rows, LAMBDA e : e.CreatedAt = k)
         IN  (IF flip THEN Reverse(group) ELSE group)
             \o OrderByCreatedAtDesc(rows, keys \ {k}, flip)

\* WHERE status = $1
Where(st, status) == SelectSeq(st, LAMBDA e : e.Status = status)

\* LIMIT n
Limit(rows, n) == SubSeq(rows, 1, IF Len(rows) < n THEN Len(rows) ELSE n)

CreatedAts(rows) == {rows[i].CreatedAt : i \in DOMAIN rows}

ListNoLimit(st, status, flip) ==
    LET rows == IF status # "" THEN Where(st, status) ELSE st
    IN  OrderByCreatedAtDesc(rows, CreatedAts(rows), flip)

\* EnrollmentStorage.List: the rows the query returns.
List(st, status, flip) ==
    LET rows == IF status # "" THEN Where(st, status) ELSE st
    IN  Limit(OrderByCreatedAtDesc(rows, CreatedAts(rows), flip), PageSize)

\* RAService.ListEnrollments (one storage statement, so one step); the
\* call's local slice is kept in enrollment[p].  dbFail: the query fails.
ListEnrollments(p, status, flip, dbFail) ==
    /\ CanStart(p)
    /\ pc' = [pc EXCEPT ![p] = "done"]
    /\ op' = [op EXCEPT ![p] = "list"]
    /\ io' = [io EXCEPT ![p].reads = @ + 1]
    /\ IF dbFail
       THEN /\ err' = [err EXCEPT ![p] = <<ErrList, ErrDB>>]
            /\ UNCHANGED enrollment
       ELSE /\ enrollment' = [enrollment EXCEPT ![p] = List(store, status, flip)]
            /\ err' = [err EXCEPT ![p] = nil]
    /\ UNCHANGED <<store, clock, args, target, after, issuance>>

\* RAService.GetEnrollment (one storage statement, so one step).
GetEnrollment(p, id, dbFail) ==
    /\ CanStart(p)
    /\ pc' = [pc EXCEPT ![p] = "done"]
    /\ op' = [op EXCEPT ![p] = "get"]
    /\ target' = [target EXCEPT ![p] = id]
    /\ io' = [io EXCEPT ![p].reads = @ + 1]
    /\ LET got == IF dbFail THEN [enrollment |-> <<>>, err |-> <<ErrGet, ErrDB>>]
                  ELSE GetByID(store, id)
       IN  /\ enrollment' = [enrollment EXCEPT ![p] = got.enrollment]
           /\ err' = [err EXCEPT ![p] = got.err]
    /\ UNCHANGED <<store, clock, args, after, issuance>>

\* The status of row i in a table filled by pattern k.
RowStatus(i, k) ==
    IF (i + k) % 3 = 0 THEN "pending"
    ELSE IF (i + k) % 3 = 1 THEN "approved" ELSE "rejected"

\* A table of n rows as CreateEnrollment, ApproveEnrollment and
\* RejectEnrollment leave them: ids in creation order, created_at not
\* decreasing along the ids and spread over the clock's range.
Table(n, k) ==
    IF n = 0
    THEN <<>>
    ELSE [i \in 1..n |->
            LET t == ((i - 1) * (MaxClock + 1)) \div n
                e == [NewEnrollment("svc", "Ops", "ops@example.com",
                                    <<"CERTIFICATE REQUEST", "svc", TRUE>>, t, t)
                        EXCEPT !.ID = i]
            IN  IF RowStatus(i, k) = "approved"
                THEN Approved(e, "alice", MaxClock)
                ELSE IF RowStatus(i, k) = "rejected"
                THEN Rejected(e, "alice", "duplicate request", MaxClock)
                ELSE e]

\* Tables of less than a page, and of a page and more.
TableSizes == (0..MaxRecords) \cup {PageSize - 1 + n : n \in 1..MaxRecords}

InitList ==
    /\ store \in {Table(n, k) : n \in TableSizes, k \in 0..1}
    /\ clock = MaxClock
    /\ pc = [p \in Calls |-> "idle"]
    /\ op = [p \in Calls |-> "none"]
    /\ args = [p \in Calls |-> NoArgs]
    /\ target = [p \in Calls |-> 0]
    /\ enrollment = [p \in Calls |-> <<>>]
    /\ err = [p \in Calls |-> nil]
    /\ after = [p \in Calls |-> {}]
    /\ io = [p \in Calls |-> NoIO]
    /\ serial = [id \in Ids |-> <<>>]
    /\ cert = [p \in Calls |-> <<>>]

NextList ==
    \/ \E p \in Calls, status \in Filters, flip \in BOOLEAN, dbFail \in BOOLEAN :
          ListEnrollments(p, status, flip, dbFail)
    \/ \E p \in Calls, id \in {1, Len(store) + 1}, dbFail \in BOOLEAN :
          GetEnrollment(p, id, dbFail)

SpecList == InitList /\ [][NextList]_vars

\* C20: a ListEnrollments call returns rows of the store, none twice, in
\* descending order of created_at, at most PageSize of them, and with a
\* non-empty filter only rows of that status; ListEnrollments and
\* GetEnrollment leave the store as it was.
C20_ListOrderedBoundedFiltered ==
    [][/\ \A p \in Calls, status \in Filters, flip \in BOOLEAN :
             ListEnrollments(p, status, flip, FALSE)
             => LET out == enrollment'[p]
                IN  /\ Len(out) <= PageSize
                    /\ \A i \in DOMAIN out :
                          /\ out[i].ID \in DOMAIN store
                          /\ out[i] = store[out[i].ID]
                          /\ status # "" => out[i].Status = status
                          /\ i > 1 => /\ out[i - 1].CreatedAt >= out[i].CreatedAt
                                      /\ \A j \in 1..(i - 1) : out[j].ID # out[i].ID
                    /\ status = "" =>
                          Len(out) = IF Len(store) < PageSize THEN Len(store)
                                     ELSE PageSize
                    /\ store' = store
       /\ \A p \in Calls :
             (pc[p] = "idle" /\ op'[p] \in {"list", "get"}) => store' = store]_vars

C20_Witness ==
    \E p, q \in Calls :
        /\ pc[p] = "done" /\ op[p] = "list" /\ err[p] = nil
        /\ Len(store) > PageSize
        /\ Len(enrollment[p]) = PageSize
        /\ enrollment[p][1].CreatedAt > enrollment[p][PageSize].CreatedAt
        /\ \E i \in DOMAIN enrollment[p] : enrollment[p][i].Status = "approved"
        /\ pc[q] = "done" /\ op[q] = "list" /\ err[q] = nil
        /\ enrollment[q] # <<>>
        /\ enrollment[q][1].CreatedAt > enrollment[q][Len(enrollment[q])].CreatedAt
        /\ \A i \in DOMAIN enrollment[q] : enrollment[q][i].Status = "pending"

\* The columns a decision writes.
Tuple(e) == <<e.Status, e.ApprovedBy, e.RejectedBy, e.RejectReason, e.UpdatedAt>>

\* The call p commits its Update in this step.
Commits(p) ==
    /\ pc[p] = "update" /\ op[p] \in Decisions
    /\ pc'[p] = "done" /\ err'[p] = nil

\* C21: the stored (status, approved_by, rejected_by, reject_reason,
\* updated_at) of a record is at all times the tuple of one call: a
\* committing Update stores the whole tuple of its call, no other step
\* changes the tuple, and the stored tuple never carries the actor of one
\* kind of decision together with the status or fields of the other.
C21_LastWriterWhole ==
    /\ [](\A id \in DOMAIN store :
            LET e == store[id]
            IN  /\ e.Status = "pending"
                     => e.ApprovedBy = <<>> /\ e.RejectedBy = <<>>
                        /\ e.RejectReason = <<>>
                /\ e.Status = "approved"
                     => e.ApprovedBy # <<>> /\ e.RejectedBy = <<>>
                        /\ e.RejectReason = <<>>
                /\ e.Status = "rejected"
                     => e.ApprovedBy = <<>> /\ e.RejectedBy # <<>>
                        /\ e.RejectReason # <<>>)
    /\ [][/\ \A p \in Calls :
                Commits(p)
                => Tuple(store'[target[p]]) = Tuple(enrollment[p][1])
          /\ \A id \in DOMAIN store :
                Tuple(store'[id]) # Tuple(store[id])
                => \E p \in Calls :
                      /\ Commits(p) /\ target[p] = id
                      /\ Tuple(store'[id]) = Tuple(enrollment[p][1])]_vars

C21_Witness ==
    \E p, q \in Calls :
        /\ pc[p] = "done" /\ op[p] = "approve" /\ err[p] = nil
        /\ pc[q] = "done" /\ op[q] = "reject" /\ err[q] = nil
        /\ target[p] = target[q]
        /\ Tuple(store[target[p]])
             = <<"approved", <<"alice">>, <<>>, <<>>, MaxClock>>

\* The decision calls whose Update on id has committed.
Committed(id) ==
    {p \in Calls : /\ pc[p] = "done" /\ op[p] \in Decisions
                   /\ target[p] = id /\ err[p] = nil}

\* The decision calls on id that read it before any decision on it had
\* committed and found it pending.
ReadBeforeFirstCommit(id) ==
    {p \in Calls : /\ op[p] \in Decisions /\ target[p] = id
                   /\ after[p] = {}
                   /\ pc[p] \in {"mutate", "update"}
                      \/ (pc[p] = "done" /\ io[p].writes = 1)}

\* C22: a decision call that reads its id after another decision on that id
\* has committed fails and writes nothing; so every call that commits on an
\* id read it before the first commit on it, and the commits on an id are
\* no more than the calls that had read it by then.
C22_LateReaderFails ==
    /\ \A p \in Calls :
          (op[p] \in Decisions /\ after[p] # {})
          => /\ pc[p] = "done"
             /\ err[p] # nil
             /\ io[p].writes = 0
    /\ \A id \in Ids :
          /\ Committed(id) \subseteq ReadBeforeFirstCommit(id)
          /\ Cardinality(Committed(id)) <= Cardinality(ReadBeforeFirstCommit(id))

C22_Witness ==
    \E p, r \in Calls :
        /\ p \in Committed(target[r])
        /\ op[p] = "reject" /\ after[p] = {}
        /\ op[r] = "approve" /\ after[r] = {"reject"}
        /\ pc[r] = "done" /\ err[r] = <<ErrNotPending>> /\ io[r].writes = 0

\* C23: a stored status that is not pending never becomes pending; every
\* commit of a decision stores approved or rejected; a record is pending
\* after a step only if it was pending before it or the step created it.
C23_NeverPendingAgain ==
    [][/\ \A id \in DOMAIN store :
             /\ id \in DOMAIN store'
             /\ store[id].Status # "pending" => store'[id].Status # "pending"
       /\ \A p \in Calls :
             Commits(p) => store'[target[p]].Status \in {"approved", "rejected"}
       /\ \A id \in DOMAIN store' :
             (store'[id].Status = "pending" /\ id \notin DOMAIN store)
             => \E p \in Calls :
                   /\ pc[p] = "idle" /\ op'[p] = "create" /\ err'[p] = nil
                   /\ id = Len(store) + 1]_vars

C23_Witness ==
    \E id \in DOMAIN store :
        /\ Decided(id) = {"approve", "reject"}
        /\ store[id].Status = "rejected"
        /\ store[id].UpdatedAt = store[id].CreatedAt
====
